---- MODULE Spec2Model ----
(***************************************************************************)
(* tarDirReader (tar_dir_reader.go): a directory presented as a tar byte   *)
(* stream.  The first Read walks the tree, builds the queue, creates an    *)
(* io.Pipe and starts the goroutine writeQueue, which serialises the       *)
(* queued files through an archive/tar Writer into the pipe.  Read takes   *)
(* the bytes from the other end of the pipe.                               *)
(*                                                                         *)
(* io.Pipe is a rendezvous: a Write call offers its slice, a Read call     *)
(* copies min(len(p), len(b)) bytes and returns, and the Write call        *)
(* returns once its slice is empty (a zero-length Write still needs one    *)
(* Read).  The tar Writer emits the USTAR layout: one header block per     *)
(* entry, the content, zero padding up to the block size, and two zero     *)
(* blocks at Close.                                                        *)
(***************************************************************************)
EXTENDS Integers, Sequences, FiniteSets, TLC

\* Scaled-down sizes: the tar block (512 in archive/tar), the io.Copy buffer
\* (32768 in io), the largest file and the largest Read buffer.
BlockSize == 2
CopyBufSize == 1
MaxFileSize == 2
MaxBuf == 2

Min(a, b) == IF a < b THEN a ELSE b

\* ------------------------------------------------------------------ tree
\* Names are ordered as fs.ReadDir sorts them.  The root may hold the file 1,
\* the directory 2 and the file 3; the directory 2 may hold the file 2/1,
\* whose base name collides with that of the file 1.
Names == {1, 2, 3}
Root == <<>>
Dirs == {Root, <<2>>}
FilePaths == {<<1>>, <<2, 1>>, <<3>>}

LastName == CHOOSE m \in Names : \A n \in Names : n <= m

\* filepath.Base
BaseFirst(path) == path[1]
Base(path) == path[Len(path)]

\* an integer naming the file a content byte comes from
FileId(path) == IF Len(path) = 1 THEN path[1] ELSE 10 * path[1] + path[2]

\* the callback of fs.WalkDir: only non-directories are queued
EnqueueAll(isDir) == TRUE
Enqueue(isDir) == ~isDir

\* fs.WalkDir over the files `files`, pre-order, entries of a directory in
\* name order; reading a directory of `bad` fails, the callback returns the
\* error and the walk stops, keeping what was queued.
RECURSIVE walkDir(_, _, _), walkEntries(_, _, _, _)
walkDir(files, dir, bad) ==
    IF dir \in bad
    THEN [queue |-> <<>>, err |-> TRUE]
    ELSE walkEntries(files, dir, bad, 1)
walkEntries(files, dir, bad, c) ==
    IF c > LastName
    THEN [queue |-> <<>>, err |-> FALSE]
    ELSE LET p == Append(dir, c)
             exists == p \in Dirs \/ p \in files
             own == IF exists /\ Enqueue(p \in Dirs) THEN <<p>> ELSE <<>>
             below == IF p \in Dirs
                      THEN walkDir(files, p, bad)
                      ELSE [queue |-> <<>>, err |-> FALSE]
         IN  IF below.err
             THEN [queue |-> own \o below.queue, err |-> TRUE]
             ELSE LET rest == walkEntries(files, dir, bad, c + 1)
                  IN  [queue |-> own \o below.queue \o rest.queue,
                       err |-> rest.err]

WalkDir(files, bad) == walkDir(files, Root, bad)

\* ----------------------------------------------------------------- bytes
Zero == [k |-> "0", n |-> 0, s |-> 0, i |-> 0]
ZeroBytes(len) == [j \in 1..len |-> Zero]
zeroBlock == ZeroBytes(BlockSize)

\* the header block of an entry: name and size, one block long
HeaderBlock(name, sz) == [j \in 1..BlockSize |-> [k |-> "h", n |-> name, s |-> sz, i |-> j]]

\* archive/tar blockPadding: bytes needed to reach the next block boundary
blockPadding(sz) == (BlockSize - (sz % BlockSize)) % BlockSize


\* ----------------------------------------------------------------- state
VARIABLES
    present,      \* the regular files of the source tree, now
    size,         \* size of each file's content
    initialized,  \* tarDirReader.initialized
    queue,        \* tarDirReader.queue
    snapshot,     \* the files of the tree when init walked it
    walkErr,      \* init returned the walk's error
    walks,        \* how many times init has walked the tree
    launches,     \* how many goroutines writeQueue init has started
    prodPc,       \* position of the goroutine writeQueue
    qi,           \* index of writeQueue's range loop over the queue
    open,         \* source files writeFile holds open
    off,          \* bytes of the open file io.Copy has read
    fault,        \* the operation whose error made writeQueue panic
    twPad,        \* tar.Writer.pad: padding owed to the current entry
    pend,         \* Write calls on the pipe not yet returned; the head is blocked
    written,      \* every byte handed to a pipe Write so far
    closed,       \* the PipeWriter is closed
    conPc,        \* the consumer: "idle", or "reading" inside PipeReader.Read
    buf,          \* len(p) of the Read in progress
    delivered,    \* every byte Read has copied into the consumer's buffers
    ret,          \* what the last returned Read returned
    firstRet,     \* what the first returned Read returned
    eofSeen,      \* some Read has returned io.EOF
    errSeen,      \* some Read has returned an error other than io.EOF
    got,          \* the byte counts n > 0 that Reads have returned
    called,       \* Read has been called on the instance
    lateRet,      \* what Reads returned that returned after an io.EOF
    abandoned     \* the consumer has stopped calling Read

tarVars == <<present, size, initialized, queue, snapshot, walkErr, walks,
             launches, prodPc, qi, open, off, fault, twPad, pend, written,
             closed, conPc, buf, delivered, ret, firstRet, eofSeen, errSeen,
             got, called, lateRet, abandoned>>

\* Run (godocker.go): one call, from the options to the return
VARIABLES
    config,   \* Config: image source, execRunners, afterRunners, Container
    run       \* the call of Run: its position pc ("idle": not called), its
              \* named result err, the loop indices ei and ai, the calls made
              \* (log), whether a panic is unwinding it, and the build: the
              \* response lines not yet scanned (stream), the position of
              \* consumeDockerStream (consPc), the line it is sending,
              \* whether close(lines) has run, and buildImage's imageTag

runVars == <<config, run>>

vars == <<tarVars, runVars>>

treeVars == <<present, size>>
readerVars == <<initialized, queue, snapshot, walkErr, walks, launches>>
prodVars == <<prodPc, qi, open, off, fault, twPad, written, closed>>
conVars == <<conPc, buf, delivered, ret, firstRet, eofSeen, errSeen, got, called,
            lateRet>>

NoRet == [n |-> 0, err |-> "none"]
Ret(n, e) == [n |-> n, err |-> e]

\* the content of a file: bytes that name the file and their offset
Data(f) == [j \in 1..size[f] |-> [k |-> "d", n |-> FileId(f), s |-> 0, i |-> j]]

\* the panic of writeQueue ends the whole process
Panicked == prodPc = "panicked"

\* the goroutine is inside a pipe Write
InWrite == pend # <<>>

\* the bytes of a sequence of Write calls
RECURSIVE Flatten(_)
Flatten(ws) == IF ws = <<>> THEN <<>> ELSE Head(ws) \o Flatten(Tail(ws))

\* NewTarDirReader only stores os.DirFS(dir): nothing is walked or started
WalkedAtConstruction == 0 + 1
NotWalkedAtConstruction == 0 + 0

\* Run has not been called
RunFrame ==
    [pc |-> "idle", err |-> "nil", ei |-> 1, ai |-> 1, log |-> <<>>,
     panicking |-> FALSE, stream |-> <<>>, consPc |-> "none",
     sending |-> "none", linesClosed |-> FALSE, imageTag |-> "none"]

RunIdle ==
    /\ config = [image |-> "none", execRunners |-> 0, afterRunners |-> <<>>,
                 Container |-> FALSE]
    /\ run = RunFrame

\* the reader as NewTarDirReader returns it, over some directory tree
TarInit ==
    /\ present \in SUBSET FilePaths
    /\ size \in [FilePaths -> 0..MaxFileSize]
    /\ \A f \in FilePaths \ present : size[f] = 0
    /\ initialized = FALSE
    /\ queue = <<>>
    /\ snapshot = {}
    /\ walkErr = FALSE
    /\ walks = NotWalkedAtConstruction
    /\ launches = 0
    /\ prodPc = "none"
    /\ qi = 1
    /\ open = {}
    /\ off = 0
    /\ fault = "none"
    /\ twPad = 0
    /\ pend = <<>>
    /\ written = <<>>
    /\ closed = FALSE
    /\ conPc = "idle"
    /\ buf = 0
    /\ delivered = <<>>
    /\ ret = NoRet
    /\ firstRet = NoRet
    /\ eofSeen = FALSE
    /\ errSeen = FALSE
    /\ got = {}
    /\ called = FALSE
    /\ lateRet = {}
    /\ abandoned = FALSE

Init == RunIdle /\ TarInit

\* ------------------------------------------------------------- consumer
\* a Read call returns (n, e)
Return(n, e) ==
    /\ conPc' = "idle"
    /\ ret' = Ret(n, e)
    /\ firstRet' = IF firstRet = NoRet THEN Ret(n, e) ELSE firstRet
    /\ eofSeen' = (eofSeen \/ e = "EOF")
    /\ errSeen' = (errSeen \/ e \notin {"nil", "EOF"})
    /\ got' = IF n > 0 THEN got \cup {n} ELSE got
    /\ lateRet' = IF eofSeen THEN lateRet \cup {Ret(n, e)} ELSE lateRet

\* init starts the goroutine only when the walk returned no error
LaunchAlways(e) == TRUE
Launch(e) == ~e

\* Read, up to the point where it blocks in PipeReader.Read: the first call
\* runs init (the walk, the pipe, the goroutine); a walk error is returned
\* straight away with n = 0.
\* the guard of init: the body runs unless initialized is already set
InitEveryRead == TRUE
InitAgainWhenClosed == ~initialized \/ closed
NeedsInit == ~initialized

ReadCall(n) ==
    /\ UNCHANGED runVars
    /\ conPc = "idle" /\ ~abandoned /\ ~Panicked
    /\ buf' = n
    /\ called' = TRUE
    /\ IF ~NeedsInit
       THEN /\ conPc' = "reading"
            /\ UNCHANGED <<readerVars, prodPc, ret, firstRet, eofSeen, errSeen,
                           got, lateRet>>
       ELSE \E bad \in {{}, {Root}, {<<2>>}} :
              LET w == WalkDir(present, bad)
              IN  /\ initialized' = TRUE
                  /\ queue' = w.queue
                  /\ snapshot' = present
                  /\ walkErr' = w.err
                  /\ walks' = walks + 1
                  /\ launches' = IF Launch(w.err) THEN launches + 1 ELSE launches
                  /\ prodPc' = IF Launch(w.err) THEN "loop" ELSE prodPc
                  /\ IF w.err
                     THEN Return(0, "walk")
                     ELSE /\ conPc' = "reading"
                          /\ UNCHANGED <<ret, firstRet, eofSeen, errSeen, got,
                                         lateRet>>
    /\ UNCHANGED <<treeVars, qi, open, off, fault, twPad, pend, written,
                   closed, delivered, abandoned>>

\* copy(b, bw) in pipe.read
Copied(n, bw) == Min(n, Len(bw))

\* what pipe.write keeps of its slice after a Read took nw bytes
RestNone(bw, nw) == <<>>
RestDropOne(bw, nw) == IF bw = <<>> THEN <<>> ELSE SubSeq(bw, nw + 2, Len(bw))
Rest(bw, nw) == SubSeq(bw, nw + 1, Len(bw))

\* the rendezvous of the blocked Read with the blocked Write: Read returns
\* what it copied; the Write returns when its slice is empty.
Transfer ==
    /\ UNCHANGED runVars
    /\ conPc = "reading" /\ InWrite /\ ~closed /\ ~Panicked
    /\ LET bw == Head(pend)
           nr == Copied(buf, bw)
           rest == Rest(bw, nr)
       IN  /\ delivered' = delivered \o SubSeq(bw, 1, nr)
           /\ pend' = IF rest = <<>> THEN Tail(pend) ELSE <<rest>> \o Tail(pend)
           /\ Return(nr, "nil")
    /\ UNCHANGED <<treeVars, readerVars, prodVars, buf, called, abandoned>>

\* PipeReader.Read returns io.EOF once the write side is closed
EofWhenNoData == closed \/ pend = <<>>
EofReady == closed

ReadEOF ==
    /\ UNCHANGED runVars
    /\ conPc = "reading" /\ EofReady /\ ~Panicked
    /\ Return(0, "EOF")
    /\ UNCHANGED <<treeVars, readerVars, prodVars, pend, buf, delivered, called,
                   abandoned>>

\* the consumer stops calling Read
Abandon ==
    /\ UNCHANGED runVars
    /\ conPc = "idle" /\ ~abandoned /\ ~Panicked
    /\ abandoned' = TRUE
    /\ UNCHANGED <<treeVars, readerVars, prodVars, pend, conVars>>


\* ------------------------------------------------------------- producer
\* the goroutine is at pc and not blocked: a Write on the pipe of io.Pipe()
\* returns only when Reads have taken all of its bytes
RunningBuffered(pc) == prodPc = pc
Running(pc) == prodPc = pc /\ ~InWrite

\* defer file.Close(): what writeFile leaves open when it returns
LeftOpen(files) == files
CloseDeferred(files) == {}

\* writeFile returns err (its deferred file.Close runs) and writeQueue panics
Panic(op) ==
    /\ prodPc' = "panicked"
    /\ fault' = op
    /\ open' = CloseDeferred(open)
    /\ UNCHANGED <<qi, off, twPad, pend, written, closed>>

\* hand the Write calls ws to the pipe; the goroutine blocks in the first
Writes(ws) ==
    /\ pend' = ws
    /\ written' = written \o Flatten(ws)

\* t.fs.Open(f): fails when the file is no longer there
OpenFile ==
    /\ UNCHANGED runVars
    /\ Running("loop") /\ qi <= Len(queue)
    /\ IF queue[qi] \in present
       THEN /\ open' = open \cup {queue[qi]}
            /\ off' = 0
            /\ prodPc' = "stat"
            /\ UNCHANGED <<qi, fault, twPad, pend, written, closed>>
       ELSE Panic("open")
    /\ UNCHANGED <<treeVars, readerVars, conVars, abandoned>>

\* file.Stat()
Stat ==
    /\ UNCHANGED runVars
    /\ Running("stat")
    /\ \E ok \in BOOLEAN :
         IF ok
         THEN /\ prodPc' = "header"
              /\ UNCHANGED <<qi, open, off, fault, twPad, pend, written, closed>>
         ELSE Panic("stat")
    /\ UNCHANGED <<treeVars, readerVars, conVars, abandoned>>

\* tar.FileInfoHeader(info, "")
FileInfoHeader ==
    /\ UNCHANGED runVars
    /\ Running("header")
    /\ \E ok \in BOOLEAN :
         IF ok
         THEN /\ prodPc' = "writeHeader"
              /\ UNCHANGED <<qi, open, off, fault, twPad, pend, written, closed>>
         ELSE Panic("header")
    /\ UNCHANGED <<treeVars, readerVars, conVars, abandoned>>

\* header.Name = filepath.Base(f); t.archive.WriteHeader(header): Flush of
\* the previous entry (WriteHeader, then writeRawHeader), then the block
WriteHeader ==
    /\ UNCHANGED runVars
    /\ Running("writeHeader")
    /\ LET f == queue[qi]
       IN  \E ok \in BOOLEAN :
             IF ok
             THEN /\ Writes(<<ZeroBytes(twPad), <<>>, HeaderBlock(Base(f), size[f])>>)
                  /\ twPad' = blockPadding(size[f])
                  /\ prodPc' = "copy"
                  /\ UNCHANGED <<qi, open, off, fault, closed>>
             ELSE Panic("writeHeader")
    /\ UNCHANGED <<treeVars, readerVars, conVars, abandoned>>

\* one round of io.Copy(t.archive, file): read up to a buffer, write it;
\* at the end of the file the copy returns
CopyChunk ==
    /\ UNCHANGED runVars
    /\ Running("copy")
    /\ LET f == queue[qi]
           chunk == SubSeq(Data(f), off + 1, Min(off + CopyBufSize, size[f]))
       IN  \E ok \in BOOLEAN :
             IF ~ok
             THEN Panic("copy")
             ELSE IF off = size[f]
             THEN /\ prodPc' = "flush"
                  /\ UNCHANGED <<qi, open, off, fault, twPad, pend, written, closed>>
             ELSE /\ Writes(<<chunk>>)
                  /\ off' = off + Len(chunk)
                  /\ UNCHANGED <<prodPc, qi, open, fault, twPad, closed>>
    /\ UNCHANGED <<treeVars, readerVars, conVars, abandoned>>

\* t.archive.Flush(): the padding of the entry
Flush ==
    /\ UNCHANGED runVars
    /\ Running("flush")
    /\ \E ok \in BOOLEAN :
         IF ok
         THEN /\ Writes(<<ZeroBytes(twPad)>>)
              /\ twPad' = 0
              /\ prodPc' = "return"
              /\ UNCHANGED <<qi, open, off, fault, closed>>
         ELSE Panic("flush")
    /\ UNCHANGED <<treeVars, readerVars, conVars, abandoned>>

\* writeFile returns nil: the deferred file.Close(), then the next file
ReturnFile ==
    /\ UNCHANGED runVars
    /\ Running("return")
    /\ open' = CloseDeferred(open)
    /\ qi' = qi + 1
    /\ prodPc' = "loop"
    /\ UNCHANGED <<off, fault, twPad, pend, written, closed>>
    /\ UNCHANGED <<treeVars, readerVars, conVars, abandoned>>

\* the Write calls of tar.Writer.Close after its Flush: two zero blocks
OneBlockTrailer == <<zeroBlock>>
TrailerWrites == <<zeroBlock, zeroBlock>>

\* after the range loop: t.archive.Close()
ArchiveClose ==
    /\ UNCHANGED runVars
    /\ Running("loop") /\ qi > Len(queue)
    /\ Writes(<<ZeroBytes(twPad)>> \o TrailerWrites)
    /\ twPad' = 0
    /\ prodPc' = "closePipe"
    /\ UNCHANGED <<qi, open, off, fault, closed>>
    /\ UNCHANGED <<treeVars, readerVars, conVars, abandoned>>

\* t.writer.Close(), then writeQueue returns
WriterLeftOpen == FALSE
WriterClosed == TRUE

PipeClose ==
    /\ UNCHANGED runVars
    /\ Running("closePipe")
    /\ closed' = WriterClosed
    /\ prodPc' = "done"
    /\ UNCHANGED <<qi, open, off, fault, twPad, pend, written>>
    /\ UNCHANGED <<treeVars, readerVars, conVars, abandoned>>

Producer ==
    \/ OpenFile \/ Stat \/ FileInfoHeader \/ WriteHeader \/ CopyChunk
    \/ Flush \/ ReturnFile \/ ArchiveClose \/ PipeClose

\* ---------------------------------------------------------- environment
\* the queued files writeQueue has not opened yet
Unopened == {queue[j] : j \in {k \in qi..Len(queue) : k > qi \/ prodPc \in {"none", "loop"}}}

\* another process removes a file of the tree after the walk; only the
\* removal of a file still to be opened can be seen by the reader
RemoveFile(f) ==
    /\ UNCHANGED runVars
    /\ initialized /\ ~Panicked
    /\ f \in present /\ f \in Unopened
    /\ present' = present \ {f}
    /\ UNCHANGED <<size, readerVars, prodVars, pend, conVars, abandoned>>

\* another process adds a new file to the tree after the walk
AddFile(f) ==
    /\ UNCHANGED runVars
    /\ initialized /\ ~Panicked
    /\ f \notin present /\ f \notin snapshot
    /\ present' = present \cup {f}
    /\ UNCHANGED <<size, readerVars, prodVars, pend, conVars, abandoned>>

Next ==
    \/ \E n \in 0..MaxBuf : ReadCall(n)
    \/ Transfer
    \/ ReadEOF
    \/ Abandon
    \/ Producer
    \/ \E f \in FilePaths : RemoveFile(f)
    \/ \E f \in FilePaths : AddFile(f)

Spec == Init /\ [][Next]_vars

\* The Go scheduler runs a goroutine that can run, and a Read and a Write
\* blocked on the same pipe meet; the consumer, unless it has stopped, comes
\* back with a non-empty buffer again and again.
FairSpec ==
    /\ Spec
    /\ WF_vars(Producer)
    /\ WF_vars(Transfer)
    /\ WF_vars(ReadEOF)
    /\ SF_vars(\E n \in 1..MaxBuf : ReadCall(n))


\* --------------------------------------------------------------------- Run
\* The calls Run makes to the Docker engine and the runners it executes are
\* operations of the environment: each one either succeeds or returns an
\* error.  run.log records them in the order in which they are made.
MaxExec == 2
MaxAfter == 2
MaxLines == 2

SeqsUpTo(S, n) == UNION {[1..k -> S] : k \in 0..n}

\* the options that append to config.afterRunners
AfterKinds == {"CleanupContainer", "CleanupImage", "After"}

\* a line of the build response: it has a stream field, an aux ID, neither
\* (a status line), or it is not JSON
LineKinds == {"stream", "status", "aux", "bad"}

\* Run after its options are applied: WithDockerfile sets ImageBuildOpts,
\* WithImage sets ContainerConfig.Image, Exec and After and the Cleanup
\* options append runners
Configs ==
    [image : {"build", "pull", "none"},
     execRunners : 0..MaxExec,
     afterRunners : SeqsUpTo(AfterKinds, MaxAfter),
     Container : {FALSE}]

RunInit ==
    /\ present = {}
    /\ TarInit
    /\ config \in Configs
    /\ \E s \in IF config.image = "build" THEN SeqsUpTo(LineKinds, MaxLines)
                                          ELSE {<<>>} :
          run = [RunFrame EXCEPT !.pc = "client", !.stream = s]

Call(op, i, ok) == [op |-> op, i |-> i, ok |-> ok]
ErrOf(ok) == IF ok THEN "nil" ELSE "err"

\* Run's deferred calls are over: it returns err, or the panic goes on
Unwound == IF run.panicking THEN "crashed" ELSE "returned"

NewClientWithOpts ==
    /\ run.pc = "client"
    /\ \E ok \in BOOLEAN :
          run' = [run EXCEPT !.err = ErrOf(ok),
                             !.pc = IF ok THEN "image" ELSE "returned"]
    /\ UNCHANGED <<config, tarVars>>

\* buildImage up to the start of consumeDockerStream
ImageBuild ==
    /\ run.pc = "image"
    /\ config.image = "build"
    /\ \E ok \in BOOLEAN :
          run' = IF ok
                 THEN [run EXCEPT !.log = Append(@, Call("ImageBuild", 0, ok)),
                                  !.pc = "building",
                                  !.consPc = "scan",
                                  !.imageTag = "BuildID"]
                 ELSE [run EXCEPT !.log = Append(@, Call("ImageBuild", 0, ok)),
                                  !.err = "err",
                                  !.pc = "after"]
    /\ UNCHANGED <<config, tarVars>>

\* scanner.Scan() is false, at the end of the input or at a read error
\* with nothing buffered: the loop ends and lines is closed
ScanEnd ==
    /\ run.consPc = "scan"
    /\ run' = [run EXCEPT !.linesClosed = TRUE, !.consPc = "returned"]
    /\ UNCHANGED <<config, tarVars>>

\* scanner.Scan() is true for buffered input after a read error, and
\* scanner.Err() is not nil: return
ScanErr ==
    /\ run.consPc = "scan"
    /\ run.stream # <<>>
    /\ run' = [run EXCEPT !.consPc = "returned"]
    /\ UNCHANGED <<config, tarVars>>

\* one line: json.Unmarshal, then print it or send it
ScanLine ==
    /\ run.consPc = "scan"
    /\ run.stream # <<>>
    /\ LET line == Head(run.stream)
       IN  run' = [run EXCEPT
                     !.stream = Tail(@),
                     !.consPc = CASE line = "bad" -> "returned"
                                  [] line = "stream" -> "scan"
                                  [] OTHER -> "send",
                     !.sending = IF line \in {"bad", "stream"} THEN "none"
                                                               ELSE line]
    /\ UNCHANGED <<config, tarVars>>

consumeDockerStream == ScanEnd \/ ScanErr \/ ScanLine

\* lines is unbuffered: the send and buildImage's receive happen together
Receive ==
    /\ run.pc = "building"
    /\ run.consPc = "send"
    /\ run' = [run EXCEPT
                 !.imageTag = IF run.sending = "aux" THEN "Aux" ELSE @,
                 !.sending = "none",
                 !.consPc = "scan"]
    /\ UNCHANGED <<config, tarVars>>

\* the range over lines ends when lines is closed; buildImage returns
RangeEnd ==
    /\ run.pc = "building"
    /\ run.linesClosed
    /\ run' = [run EXCEPT !.pc = "create"]
    /\ UNCHANGED <<config, tarVars>>

pullImage ==
    /\ run.pc = "image"
    /\ config.image = "pull"
    /\ \E ok \in BOOLEAN :
          run' = [run EXCEPT !.log = Append(@, Call("ImagePull", 0, ok)),
                             !.err = ErrOf(ok),
                             !.pc = IF ok THEN "create" ELSE "after"]
    /\ UNCHANGED <<config, tarVars>>

NoImage ==
    /\ run.pc = "image"
    /\ config.image = "none"
    /\ run' = [run EXCEPT !.err = "err", !.pc = "after"]
    /\ UNCHANGED <<config, tarVars>>

ContainerCreate ==
    /\ run.pc = "create"
    /\ \E ok \in BOOLEAN :
          /\ run' = [run EXCEPT
                       !.log = Append(@, Call("ContainerCreate", 0, ok)),
                       !.err = ErrOf(ok),
                       !.pc = IF ok THEN "start" ELSE "after"]
          /\ config' = [config EXCEPT !.Container = ok]
    /\ UNCHANGED tarVars

ContainerStart ==
    /\ run.pc = "start"
    /\ \E ok \in BOOLEAN :
          run' = [run EXCEPT !.log = Append(@, Call("ContainerStart", 0, ok)),
                             !.err = ErrOf(ok),
                             !.pc = IF ok THEN "exec" ELSE "after"]
    /\ UNCHANGED <<config, tarVars>>

\* the deferred ContainerStop runs when execContainer returns, also when it
\* returns a runner's error
SkipStopAfterFailure == "after"
StopAfterFailure == "stop"

ExecRunner ==
    /\ run.pc = "exec"
    /\ run.ei <= config.execRunners
    /\ \E ok \in BOOLEAN :
          run' = [run EXCEPT !.log = Append(@, Call("execRunner", run.ei, ok)),
                             !.err = ErrOf(ok),
                             !.ei = IF ok THEN @ + 1 ELSE @,
                             !.pc = IF ok THEN "exec" ELSE StopAfterFailure]
    /\ UNCHANGED <<config, tarVars>>

ExecReturn ==
    /\ run.pc = "exec"
    /\ run.ei > config.execRunners
    /\ run' = [run EXCEPT !.pc = "stop"]
    /\ UNCHANGED <<config, tarVars>>

\* the deferred call of execContainer: panic when ContainerStop fails
ContainerStop ==
    /\ run.pc = "stop"
    /\ \E ok \in BOOLEAN :
          run' = [run EXCEPT !.log = Append(@, Call("ContainerStop", 0, ok)),
                             !.panicking = ~ok,
                             !.pc = "after"]
    /\ UNCHANGED <<config, tarVars>>

\* the runner appended by CleanupContainer reads config.Container.ID
CleanupContainer ==
    /\ run.pc = "after"
    /\ run.ai <= Len(config.afterRunners)
    /\ config.afterRunners[run.ai] = "CleanupContainer"
    /\ IF ~config.Container
       THEN run' = [run EXCEPT
                      !.log = Append(@, Call("CleanupContainer", run.ai, FALSE)),
                      !.pc = "crashed"]
       ELSE \E ok \in BOOLEAN :
               run' = [run EXCEPT
                         !.log = Append(@, Call("CleanupContainer", run.ai, ok)),
                         !.err = ErrOf(ok),
                         !.ai = IF ok THEN @ + 1 ELSE @,
                         !.pc = IF ok THEN "after" ELSE Unwound]
    /\ UNCHANGED <<config, tarVars>>

\* the runner appended by CleanupImage, or a runner given to After
AfterRunner ==
    /\ run.pc = "after"
    /\ run.ai <= Len(config.afterRunners)
    /\ config.afterRunners[run.ai] # "CleanupContainer"
    /\ \E ok \in BOOLEAN :
          run' = [run EXCEPT
                    !.log = Append(@, Call(config.afterRunners[run.ai],
                                           run.ai, ok)),
                    !.err = ErrOf(ok),
                    !.ai = IF ok THEN @ + 1 ELSE @,
                    !.pc = IF ok THEN "after" ELSE Unwound]
    /\ UNCHANGED <<config, tarVars>>

\* the deferred loop over config.afterRunners ends
AfterReturn ==
    /\ run.pc = "after"
    /\ run.ai > Len(config.afterRunners)
    /\ run' = [run EXCEPT !.pc = Unwound]
    /\ UNCHANGED <<config, tarVars>>

RunNext ==
    \/ NewClientWithOpts
    \/ ImageBuild
    \/ consumeDockerStream
    \/ Receive
    \/ RangeEnd
    \/ pullImage
    \/ NoImage
    \/ ContainerCreate
    \/ ContainerStart
    \/ ExecRunner
    \/ ExecReturn
    \/ ContainerStop
    \/ CleanupContainer
    \/ AfterRunner
    \/ AfterReturn

RunSpec == RunInit /\ [][RunNext]_vars


\* ------------------------------------------------ what the archive must be
IsPrefix(a, b) == Len(a) <= Len(b) /\ SubSeq(b, 1, Len(a)) = a

\* the name an entry must carry: the last element of the path
ExpName(f) == f[Len(f)]

\* the zero bytes that bring a content of sz bytes to a block boundary
ExpPad(sz) == CHOOSE p \in 0..(BlockSize - 1) : (sz + p) % BlockSize = 0

ExpHeader(f) == [j \in 1..BlockSize |-> [k |-> "h", n |-> ExpName(f), s |-> size[f], i |-> j]]
ExpEntry(f) == ExpHeader(f) \o Data(f) \o ZeroBytes(ExpPad(size[f]))

\* the end-of-archive marker: two blocks of zeros
EndMarker == ZeroBytes(BlockSize + BlockSize)

RECURSIVE ExpEntries(_)
ExpEntries(q) == IF q = <<>> THEN <<>> ELSE ExpEntry(Head(q)) \o ExpEntries(Tail(q))
ExpStream(q) == ExpEntries(q) \o EndMarker

\* an archive reader: header block, size bytes of content, padding, until a
\* block that is no header; rest is what follows the last entry
RECURSIVE Decode(_)
Decode(st) ==
    IF Len(st) < BlockSize \/ st[1].k # "h"
    THEN [ok |-> TRUE, entries |-> <<>>, rest |-> st]
    ELSE LET sz == st[1].s
             total == BlockSize + sz + ExpPad(sz)
             hdrOk == \A j \in 1..BlockSize : st[j] = [st[1] EXCEPT !.i = j]
             padOk == \A j \in (BlockSize + sz + 1)..total : st[j] = Zero
         IN  IF Len(st) < total \/ ~hdrOk \/ ~padOk
             THEN [ok |-> FALSE, entries |-> <<>>, rest |-> st]
             ELSE LET more == Decode(SubSeq(st, total + 1, Len(st)))
                      e == [name |-> st[1].n, size |-> sz,
                            content |-> SubSeq(st, BlockSize + 1, BlockSize + sz)]
                  IN  [ok |-> more.ok, entries |-> <<e>> \o more.entries,
                       rest |-> more.rest]

\* two queued files share a base name
Collides(q) == \E a, b \in 1..Len(q) : a # b /\ ExpName(q[a]) = ExpName(q[b])

\* pre-order with sorted directories lists files in lexicographic path order
LexLess(p, q) ==
    \E j \in 1..Len(q) :
        /\ \A m \in 1..(j - 1) : m <= Len(p) /\ p[m] = q[m]
        /\ (j > Len(p) \/ p[j] < q[j])
RECURSIVE SortedSeq(_)
SortedSeq(files) ==
    IF files = {} THEN <<>>
    ELSE LET first == CHOOSE f \in files : \A g \in files \ {f} : LexLess(f, g)
         IN  <<first>> \o SortedSeq(files \ {first})

\* ------------------------------------------------------------------ claims

\* C1: when the stream was read to end-of-stream and no base names collide,
\* it decodes to exactly one entry per regular file of the walked tree
\* (none for a directory), entry i with the base name, size and bytes of
\* the i-th queued file, each entry header, content, padding, and after the
\* last entry comes the end-of-archive marker.
C1_EntriesThenMarker ==
    (eofSeen /\ ~Collides(queue)) =>
        LET d == Decode(delivered)
        IN  /\ d.ok
            /\ Len(d.entries) = Cardinality(snapshot)
            /\ Len(d.entries) = Len(queue)
            /\ \A j \in 1..Len(queue) :
                   d.entries[j] = [name |-> ExpName(queue[j]),
                                   size |-> size[queue[j]],
                                   content |-> Data(queue[j])]
            /\ d.rest = EndMarker

C1_Witness ==
    /\ eofSeen /\ ~Collides(queue)
    /\ queue = <<<<2, 1>>, <<3>>>>
    /\ size[<<2, 1>>] = 1 /\ size[<<3>>] = MaxFileSize

\* C2: the queue is the walk order of the tree as it was at initialization,
\* and the entries read so far are, in order, those of a prefix of the
\* queue (all of it at end-of-stream): nothing reordered, skipped,
\* duplicated, and nothing of a file added later.
HeaderStarts(st) == SelectSeq(st, LAMBDA b : b.k = "h" /\ b.i = 1)
DataStarts(st) == SelectSeq(st, LAMBDA b : b.k = "d" /\ b.i = 1)
NonEmpty(q) == SelectSeq(q, LAMBDA f : size[f] > 0)
ExpHeaderStarts(q) == [j \in 1..Len(q) |-> ExpHeader(q[j])[1]]
ExpDataStarts(q) == [j \in 1..Len(NonEmpty(q)) |-> Data(NonEmpty(q)[j])[1]]

C2_StreamOrderIsWalkOrder ==
    /\ (initialized /\ ~walkErr) => queue = SortedSeq(snapshot)
    /\ IsPrefix(HeaderStarts(delivered), ExpHeaderStarts(queue))
    /\ IsPrefix(DataStarts(delivered), ExpDataStarts(queue))
    /\ eofSeen => /\ HeaderStarts(delivered) = ExpHeaderStarts(queue)
                  /\ DataStarts(delivered) = ExpDataStarts(queue)
    /\ \A j \in 1..Len(delivered) :
           delivered[j].k = "d" => \E f \in snapshot : delivered[j].n = FileId(f)

C2_Witness ==
    /\ eofSeen
    /\ queue = <<<<1>>, <<2, 1>>>>
    /\ <<3>> \in present
    /\ \A f \in snapshot : size[f] > 0

\* C5: when the walk fails, the first Read returns that error with n = 0,
\* the goroutine is never started and no byte is ever written to the pipe.
C5_WalkErrorFirstRead ==
    walkErr =>
        /\ firstRet = Ret(0, "walk")
        /\ prodPc = "none"
        /\ written = <<>> /\ pend = <<>> /\ delivered = <<>>

C5_Witness == walkErr /\ queue # <<>> /\ conPc = "reading"

\* C6: whatever buffer sizes the Reads use, the bytes delivered so far
\* followed by the bytes of the unfinished Writes are the bytes written, and
\* those are a prefix of one stream fixed by the queue; at end-of-stream the
\* delivered bytes are that whole stream.
C6_ChunkingKeepsStream ==
    /\ delivered \o Flatten(pend) = written
    /\ IsPrefix(written, ExpStream(queue))
    /\ eofSeen => delivered = ExpStream(queue)

C6_Witness == eofSeen /\ Len(queue) >= 2 /\ got = 1..MaxBuf

\* C7: a tree without regular files read to end-of-stream gives the
\* end-of-archive marker and nothing else, and no Read returned an error.
C7_EmptyTreeOnlyMarker ==
    (eofSeen /\ snapshot = {}) =>
        /\ delivered = EndMarker
        /\ Decode(delivered).entries = <<>>
        /\ ~errSeen

C7_Witness == eofSeen /\ snapshot = {} /\ delivered # <<>>

\* C8: a Read returns end-of-stream only when every queued file has been
\* serialised, no Write is unfinished, every written byte has been
\* delivered and the delivered bytes end with the whole marker.
C8_EofOnlyAfterEverything ==
    eofSeen =>
        /\ qi > Len(queue)
        /\ pend = <<>>
        /\ delivered = written
        /\ Len(delivered) >= Len(EndMarker)
        /\ SubSeq(delivered, Len(delivered) - Len(EndMarker) + 1, Len(delivered)) = EndMarker

C8_Witness == ret = Ret(0, "EOF") /\ conPc = "idle" /\ Len(queue) >= 1


\* C3 (as claimed): after a per-file failure the consumer's pending or next
\* Read eventually returns an error or end-of-stream.
C3_ReadReturnsAfterFileFailure == Panicked ~> (errSeen \/ eofSeen)

\* C4 (as claimed): when a queued file has disappeared before its turn, a
\* Read reports an error, and neither that file nor a later one has an entry.
C4_DisappearedFileIsReported ==
    fault = "open" =>
        /\ errSeen
        /\ IsPrefix(written, ExpEntries(SubSeq(queue, 1, qi - 1)))

\* C9: under the fair scheduling, unless the walk or a file operation fails
\* or the consumer stops reading, the goroutine exhausts the queue, writes
\* the marker, closes the pipe, and a Read returns end-of-stream.
C9_EventuallyEndOfStream ==
    <>(\/ walkErr \/ Panicked \/ abandoned
       \/ (eofSeen /\ closed /\ prodPc = "done" /\ qi > Len(queue)
           /\ delivered = ExpStream(queue)))

C9_Witness == eofSeen /\ prodPc = "done" /\ ~abandoned /\ Len(queue) = 3

C11_NothingBeforeFirstRead ==
    /\ ~called => /\ walks = 0 /\ launches = 0 /\ ~initialized
                  /\ queue = <<>> /\ prodPc = "none"
                  /\ open = {} /\ written = <<>>
    /\ called => /\ initialized /\ walks = 1
                 /\ (launches = 1) = ~walkErr

C11_Witness ==
    /\ called /\ firstRet = NoRet /\ conPc = "reading"
    /\ launches = 1 /\ prodPc = "loop" /\ queue # <<>>

\* C13: whatever Reads the consumer makes, the tree is walked at most once
\* and at most one goroutine writeQueue is ever started.
C13_WalkAndLaunchAtMostOnce ==
    /\ walks <= 1
    /\ launches <= 1
    /\ launches <= walks

C13_Witness == walks = 1 /\ launches = 1 /\ got = 1..MaxBuf /\ conPc = "reading"

\* C14: whenever the goroutine is not blocked in a Write, every byte it has
\* written has been delivered; so while it holds queue file k+1 open before
\* writing its header, the entries of files 1..k are delivered in full.
C14_UnbufferedHandoff ==
    /\ (~InWrite /\ ~Panicked) => delivered = written
    /\ (open # {} /\ ~Panicked) =>
           IsPrefix(ExpEntries(SubSeq(queue, 1, qi - 1)), delivered)
    /\ prodPc \in {"stat", "header", "writeHeader"} =>
           delivered = ExpEntries(SubSeq(queue, 1, qi - 1))

C14_Witness ==
    /\ prodPc = "stat" /\ qi = 2
    /\ size[queue[1]] = MaxFileSize
    /\ got = 1..MaxBuf

\* C15: at most one source file is open; it is the file of the entry being
\* written; and outside an entry (between files, after the loop, after a
\* failure of any step) no file is open.
C15_OneFileOpenClosedAtEntryEnd ==
    /\ Cardinality(open) <= 1
    /\ open # {} => /\ prodPc \in {"stat", "header", "writeHeader", "copy",
                                   "flush", "return"}
                    /\ open = {queue[qi]}
    /\ prodPc \in {"none", "loop", "closePipe", "done", "panicked"} => open = {}

C15_Witness == Panicked /\ fault = "copy" /\ qi = 2 /\ open = {} /\ off > 0

\* C16: every Read that returns after a Read returned end-of-stream returns
\* (0, io.EOF); init was run once, one goroutine was started and has ended,
\* and nothing is delivered beyond the one stream.
C16_AfterEofAlwaysEof ==
    /\ lateRet \subseteq {Ret(0, "EOF")}
    /\ eofSeen => /\ walks = 1 /\ launches = 1
                  /\ prodPc = "done" /\ pend = <<>>
                  /\ delivered = ExpStream(queue)

C16_Witness == lateRet # {} /\ Len(queue) >= 1 /\ conPc = "idle"

\* C17 (as claimed): the consumer never waits in a Read on a pipe for which
\* no goroutine was started, so a Read after a walk error returns.
C17_NoReadWaitsWithoutProducer == conPc = "reading" => launches >= 1

\* ----------------------------------------------------------- claims on Run
Calls(ops) == {j \in DOMAIN run.log : run.log[j].op \in ops}
ExecFailed == \E j \in Calls({"execRunner"}) : ~run.log[j].ok
Started == \E j \in Calls({"ContainerStart"}) : run.log[j].ok

\* C12: when an exec runner returned an error, Run returns an error to its
\* caller, whichever after-runners are registered and whatever they return.
C12_ExecErrorReachesCaller ==
    (run.pc = "returned" /\ ExecFailed) => run.err = "err"

\* C18: in a Run whose ContainerStart succeeded, ContainerStop is called
\* exactly once, after the last executed exec runner and before every
\* after-runner; the exec runners run in registration order and none runs
\* after one that failed.  Without a successful start it is never called.
C18_StopOnceBetweenExecAndAfter ==
    LET stops == Calls({"ContainerStop"})
        execs == Calls({"execRunner"})
        afters == Calls(AfterKinds)
    IN  /\ Cardinality(stops) <= 1
        /\ ~Started => stops = {} /\ execs = {}
        /\ (Started /\ run.pc \in {"after", "returned", "crashed"})
              => Cardinality(stops) = 1
        /\ \A j \in stops : \A k \in execs : k < j
        /\ \A j \in stops : \A k \in afters : j < k
        /\ \A k \in execs : run.log[k].i = Cardinality({m \in execs : m <= k})
        /\ \A k \in execs : ~run.log[k].ok => (\A m \in execs : m <= k)

C18_Witness ==
    /\ run.pc = "returned"
    /\ ExecFailed
    /\ Cardinality(Calls({"execRunner"})) = MaxExec
    /\ \E j \in Calls({"CleanupContainer"}) : run.log[j].ok

\* C19: whenever the runner of CleanupContainer executes, config.Container
\* is set: ContainerCreate succeeded before it.
C19_CleanupOnlyOfCreatedContainer ==
    \A j \in Calls({"CleanupContainer"}) :
        /\ config.Container
        /\ \E k \in Calls({"ContainerCreate"}) : k < j /\ run.log[k].ok

\* C20: on every exit path of consumeDockerStream the channel lines is
\* closed, so that buildImage's loop over lines ends and buildImage returns.
C20_ConsumerAlwaysClosesLines ==
    run.consPc = "returned" => run.linesClosed

====
